---- MODULE Spec2Model ----
(***************************************************************************)
(* A model of the sound-synthesis core in "Sound Synthesizer/Core.h":      *)
(* the ADSR envelope, the six instruments and the step sequencer.          *)
(*                                                                         *)
(* Time is counted in ticks.  The envelope and the instruments use ticks of *)
(* 5 ms, so that every time constant of theirs (0.01, 0.05, 0.1, 0.15,     *)
(* 0.2, 0.5, 1.0, 1.5, 3.0) is a whole number of ticks; the sequencer,     *)
(* whose clock is independent of theirs, uses ticks of 25 ms (a step of    *)
(* 0.125 s is 5 ticks).  Amplitudes are exact rationals extended with the  *)
(* IEEE-754 values NaN, +Inf and -Inf, which is what a division by a       *)
(* zero-length segment produces in the source.  Rounding of doubles is not *)
(* modelled.                                                               *)
(***************************************************************************)
EXTENDS Integers, Sequences, FiniteSets, TLC

VARIABLES
    \* ---- sequencer fields (Core.h 417-427)
    nBeats, nSubBeats, fTempo, fBeatTime, fAccumulate, nCurrentBeat, nTotalBeats,
    vecChannel, vecNotes,
    \* ---- the value returned by the last call of sequencer::Update
    updateRet,
    \* ---- history of the calls made on the sequencer (not program state)
    totalElapsed, stepsAdvanced, notesLog, nCalls, unitCalls, setupChanged, oobRead,
    \* ---- one call of envelope_adsr::amplitude or of an instrument's sound:
    \*      pc is "idle" (no call), "ready" (arguments chosen) or "done"
    pc, args, result

seqVars == <<nBeats, nSubBeats, fTempo, fBeatTime, fAccumulate, nCurrentBeat,
             nTotalBeats, vecChannel, vecNotes, updateRet>>
soundVars == <<pc, args, result>>
histVars == <<totalElapsed, stepsAdvanced, notesLog, nCalls, unitCalls,
              setupChanged, oobRead>>

----------------------------------------------------------------------------
(* Bounds and units *)

\* envelope and instruments: one tick is 5 ms
TicksPerSecond == 1000 \div 5
Ticks(ms) == (ms * TicksPerSecond) \div 1000
\* sequencer: one tick is 25 ms
SeqTicksPerSecond == 1000 \div 25
SeqTicks(ms) == (ms * SeqTicksPerSecond) \div 1000

\* the largest number of channels registered on the sequencer
MaxChannels == 2
\* Update is called with elapsed times of 0..MaxElapsed ticks
MaxElapsed == 10
\* the calls of Update stop once the elapsed time handed to it exceeds one
\* round of the pattern by this many ticks
MaxExtraTime == 7
\* envelope_adsr::amplitude is called with segment lengths 0..MaxSegment ticks
\* and with dTime, dTimeOn, dTimeOff in 0..MaxTime ticks
MaxSegment == 2
MaxTime == 5
\* sound is called with dTime in 0..MaxSoundTime ticks on notes switched on at
\* 0..MaxNoteOn and off at 0..MaxNoteOff ticks
MaxSoundTime == 330
MaxNoteOn == 2
MaxNoteOff == 3

----------------------------------------------------------------------------
(* FTYPE (double) values: exact rationals n/d with d > 0 in lowest terms,    *)
(* and the IEEE-754 specials a division by zero produces                     *)

Abs(x) == IF x < 0 THEN 0 - x ELSE x

RECURSIVE GCD(_, _)
GCD(a, b) == IF b = 0 THEN a ELSE GCD(b, a % b)

NaN == [k |-> "nan", n |-> 0, d |-> 1]
PInf == [k |-> "inf", n |-> 1, d |-> 1]
NInf == [k |-> "inf", n |-> -1, d |-> 1]

Fin(n, d) ==
    LET sn == IF d < 0 THEN 0 - n ELSE n
        sd == Abs(d)
        g == GCD(Abs(sn), sd)
    IN [k |-> "fin", n |-> sn \div g, d |-> sd \div g]

IsNaN(a) == a.k = "nan"
IsInf(a) == a.k = "inf"
IsFinite(a) == a.k = "fin"
\* -1, 0 or 1; not used on NaN
Sign(a) == IF a.n > 0 THEN 1 ELSE IF a.n < 0 THEN -1 ELSE 0
Signed(sgn) == IF sgn > 0 THEN PInf ELSE NInf

FNeg(a) == IF IsNaN(a) THEN NaN ELSE [a EXCEPT !.n = 0 - a.n]

FAdd(a, b) ==
    IF IsNaN(a) \/ IsNaN(b) THEN NaN
    ELSE IF IsInf(a) /\ IsInf(b) THEN (IF a.n = b.n THEN a ELSE NaN)
    ELSE IF IsInf(a) THEN a
    ELSE IF IsInf(b) THEN b
    ELSE LET g == GCD(a.d, b.d)
         IN Fin(a.n * (b.d \div g) + b.n * (a.d \div g), (a.d \div g) * b.d)

FSub(a, b) == FAdd(a, FNeg(b))

FMul(a, b) ==
    IF IsNaN(a) \/ IsNaN(b) THEN NaN
    ELSE IF IsInf(a) \/ IsInf(b)
         THEN (IF Sign(a) = 0 \/ Sign(b) = 0 THEN NaN ELSE Signed(Sign(a) * Sign(b)))
    ELSE LET x == Fin(a.n, b.d)
             y == Fin(b.n, a.d)
         IN Fin(x.n * y.n, x.d * y.d)

\* the divisors of the source are the segment lengths, never negative: a zero
\* divisor is +0.0
FDiv(a, b) ==
    IF IsNaN(a) \/ IsNaN(b) THEN NaN
    ELSE IF IsInf(a) THEN (IF IsInf(b) THEN NaN
                           ELSE Signed(Sign(a) * (IF Sign(b) < 0 THEN -1 ELSE 1)))
    ELSE IF IsInf(b) THEN Fin(0, 1)
    ELSE IF b.n = 0 THEN (IF a.n = 0 THEN NaN ELSE Signed(Sign(a)))
    ELSE LET x == Fin(a.n, b.n)
             y == Fin(b.d, a.d)
         IN Fin(x.n * y.n, x.d * y.d)

\* a <= b and a > b; every comparison with NaN is false
FLeq(a, b) ==
    IF IsNaN(a) \/ IsNaN(b) THEN FALSE
    ELSE IF IsInf(a) THEN (a.n < 0 \/ (IsInf(b) /\ b.n > 0))
    ELSE IF IsInf(b) THEN b.n > 0
    ELSE LET g == GCD(a.d, b.d)
         IN a.n * (b.d \div g) <= b.n * (a.d \div g)

FGt(a, b) ==
    IF IsNaN(a) \/ IsNaN(b) THEN FALSE
    ELSE ~FLeq(a, b)

Zero == Fin(0, 1)
One == Fin(1, 1)
\* a time of t ticks
T(t) == Fin(t, 1)

----------------------------------------------------------------------------
(* Envelopes *)

\* envelope_adsr::envelope_adsr(): times in ticks, amplitudes as FTYPE
DefaultEnvelope ==
    [dAttackTime |-> Ticks(100), dDecayTime |-> Ticks(100),
     dSustainAmplitude |-> One, dReleaseTime |-> Ticks(200),
     dStartAmplitude |-> One]

\* Ramp without the sustain branch: past the decay segment the value is left
\* as the earlier branches set it
Ramp_NoSustain(e, life, a0) ==
    LET a1 == IF life <= e.dAttackTime
              THEN FMul(FDiv(T(life), T(e.dAttackTime)), e.dStartAmplitude)
              ELSE a0
    IN IF life > e.dAttackTime /\ life <= e.dAttackTime + e.dDecayTime
       THEN FAdd(FMul(FDiv(T(life - e.dAttackTime), T(e.dDecayTime)),
                      FSub(e.dSustainAmplitude, e.dStartAmplitude)),
                 e.dStartAmplitude)
       ELSE a1

\* the attack / decay / sustain value at life time life, starting from a0:
\* the three if statements of either branch, in order
Ramp(e, life, a0) ==
    LET a1 == IF life <= e.dAttackTime
              THEN FMul(FDiv(T(life), T(e.dAttackTime)), e.dStartAmplitude)
              ELSE a0
        a2 == IF life > e.dAttackTime /\ life <= e.dAttackTime + e.dDecayTime
              THEN FAdd(FMul(FDiv(T(life - e.dAttackTime), T(e.dDecayTime)),
                             FSub(e.dSustainAmplitude, e.dStartAmplitude)),
                        e.dStartAmplitude)
              ELSE a1
    IN IF life > e.dAttackTime + e.dDecayTime THEN e.dSustainAmplitude ELSE a2

\* Snap without the guard
Snap_None(a) == a

\* if (dAmplitude <= 0.01) dAmplitude = 0.0
Snap(a) == IF FLeq(a, Fin(1, 100)) THEN Zero ELSE a

\* amplitude with the phase test dTimeOn >= dTimeOff
amplitude_SoundingWhenEqual(e, dTime, dTimeOn, dTimeOff) ==
    LET dAmplitude ==
          IF dTimeOn >= dTimeOff
          THEN Ramp(e, dTime - dTimeOn, Zero)
          ELSE LET dReleaseAmplitude == Ramp(e, dTimeOff - dTimeOn, Zero)
               IN FAdd(FMul(FDiv(T(dTime - dTimeOff), T(e.dReleaseTime)),
                            FSub(Zero, dReleaseAmplitude)),
                       dReleaseAmplitude)
    IN Snap(dAmplitude)

\* envelope_adsr::amplitude(dTime, dTimeOn, dTimeOff)
amplitude(e, dTime, dTimeOn, dTimeOff) ==
    LET dAmplitude ==
          IF dTimeOn > dTimeOff
          THEN Ramp(e, dTime - dTimeOn, Zero)
          ELSE LET dReleaseAmplitude == Ramp(e, dTimeOff - dTimeOn, Zero)
               IN FAdd(FMul(FDiv(T(dTime - dTimeOff), T(e.dReleaseTime)),
                            FSub(Zero, dReleaseAmplitude)),
                       dReleaseAmplitude)
    IN Snap(dAmplitude)

----------------------------------------------------------------------------
(* Instruments *)

\* the constructors of the six instruments: the envelope fields they set
\* (dStartAmplitude keeps its default) and fMaxLifeTime, in ticks
instrument_bell ==
    [name |-> "Bell", fMaxLifeTime |-> Ticks(3000),
     env |-> [DefaultEnvelope EXCEPT !.dAttackTime = Ticks(10), !.dDecayTime = Ticks(1000),
                                     !.dSustainAmplitude = Zero,
                                     !.dReleaseTime = Ticks(1000)]]
instrument_bell8 ==
    [name |-> "8-Bit Bell", fMaxLifeTime |-> Ticks(3000),
     env |-> [DefaultEnvelope EXCEPT !.dAttackTime = Ticks(10), !.dDecayTime = Ticks(500),
                                     !.dSustainAmplitude = Fin(8, 10),
                                     !.dReleaseTime = Ticks(1000)]]
instrument_harmonica ==
    [name |-> "Harmonica", fMaxLifeTime |-> -1,
     env |-> [DefaultEnvelope EXCEPT !.dAttackTime = 0, !.dDecayTime = Ticks(1000),
                                     !.dSustainAmplitude = Fin(95, 100),
                                     !.dReleaseTime = Ticks(100)]]
instrument_drumkick ==
    [name |-> "Drum Kick", fMaxLifeTime |-> Ticks(1500),
     env |-> [DefaultEnvelope EXCEPT !.dAttackTime = Ticks(10), !.dDecayTime = Ticks(150),
                                     !.dSustainAmplitude = Zero,
                                     !.dReleaseTime = 0]]
instrument_drumsnare ==
    [name |-> "Drum Snare", fMaxLifeTime |-> Ticks(1000),
     env |-> [DefaultEnvelope EXCEPT !.dAttackTime = 0, !.dDecayTime = Ticks(200),
                                     !.dSustainAmplitude = Zero,
                                     !.dReleaseTime = 0]]
instrument_drumhihat ==
    [name |-> "Drum HiHat", fMaxLifeTime |-> Ticks(1000),
     env |-> [DefaultEnvelope EXCEPT !.dAttackTime = Ticks(10), !.dDecayTime = Ticks(50),
                                     !.dSustainAmplitude = Zero,
                                     !.dReleaseTime = 0]]

EnvelopeDriven == {instrument_bell, instrument_bell8, instrument_harmonica}
TimeoutDriven == {instrument_drumkick, instrument_drumsnare, instrument_drumhihat}
Instruments == EnvelopeDriven \cup TimeoutDriven

\* EnvelopeFinished with the test dAmplitude < 0.0
EnvelopeFinished_Strict(dAmplitude, bNoteFinished) ==
    IF FGt(Zero, dAmplitude) THEN TRUE ELSE bNoteFinished

\* if (dAmplitude <= 0.0) bNoteFinished = true
EnvelopeFinished(dAmplitude, bNoteFinished) ==
    IF FLeq(dAmplitude, Zero) THEN TRUE ELSE bNoteFinished

\* TimeoutFinished with the test dTime - n.on > fMaxLifeTime
TimeoutFinished_Strict(fMaxLifeTime, dTime, n, bNoteFinished) ==
    IF fMaxLifeTime > 0 /\ dTime - n.on > fMaxLifeTime THEN TRUE ELSE bNoteFinished

\* if (fMaxLifeTime > 0.0 && dTime - n.on >= fMaxLifeTime) bNoteFinished = true
TimeoutFinished(fMaxLifeTime, dTime, n, bNoteFinished) ==
    IF fMaxLifeTime > 0 /\ dTime - n.on >= fMaxLifeTime THEN TRUE ELSE bNoteFinished

\* instrument::sound(dTime, n, bNoteFinished): the envelope amplitude and the
\* flag it leaves in bNoteFinished.  The returned sample is the amplitude times
\* a mix of osc() calls (sin, pow, rand) times dVolume; the mix is not modelled.
sound(inst, dTime, n, bNoteFinished) ==
    LET dAmplitude == amplitude(inst.env, dTime, n.on, n.off)
    IN [kind |-> "sound",
        dAmplitude |-> dAmplitude,
        bNoteFinished |->
            IF inst \in EnvelopeDriven
            THEN EnvelopeFinished(dAmplitude, bNoteFinished)
            ELSE TimeoutFinished(inst.fMaxLifeTime, dTime, n, bNoteFinished)]

----------------------------------------------------------------------------
(* The step sequencer *)

\* struct note, as built by note::note()
NewNote == [id |-> 0, on |-> 0, off |-> 0, active |-> FALSE, channel |-> "nullptr"]

\* the instruments handed to AddInstrument (pointers, named by the instrument)
SeqInstruments == {"Drum Kick", "Drum Snare"}

\* a pattern of length n with trigger markers at the (0-based) positions in s
Pattern(n, s) == [i \in 1..n |-> IF (i - 1) \in s THEN "X" ELSE "."]

\* the patterns assigned to channel::sBeat by the owner of the sequencer
Patterns(n) ==
    { Pattern(n, {0}),                       \* "X..............."
      Pattern(n, {1, n - 1}),
      Pattern(n - 1, {0, 2}),                \* one marker short
      <<>> }                                 \* the pattern AddInstrument leaves

\* the constructor arguments tried: <<tempo, beats, subbeats>>
SeqConfigs == { <<120, 4, 4>>, <<240, 2, 2>> }

\* (60.0f / fTempo) / (float)nSubBeats, in ticks
BeatTime(tempo, subbeats) == (60 * SeqTicksPerSecond) \div (tempo * subbeats)

\* sequencer::sequencer
SeqInit ==
    \E cfg \in SeqConfigs :
        /\ fTempo = cfg[1]
        /\ nBeats = cfg[2]
        /\ nSubBeats = cfg[3]
        /\ fBeatTime = BeatTime(cfg[1], cfg[3])
        /\ nCurrentBeat = 0
        /\ nTotalBeats = cfg[3] * cfg[2]
        /\ fAccumulate = 0
        /\ vecChannel = <<>>
        /\ vecNotes = <<>>
        /\ updateRet = 0

HistInit ==
    /\ totalElapsed = 0
    /\ stepsAdvanced = 0
    /\ notesLog = <<>>
    /\ nCalls = 0
    /\ unitCalls = TRUE
    /\ setupChanged = FALSE
    /\ oobRead = FALSE

\* NextBeat with the test nCurrentBeat > nTotalBeats
NextBeat_NoWrap(cur, total) == IF cur + 1 > total THEN 0 ELSE cur + 1

\* nCurrentBeat++ ; if (nCurrentBeat >= nTotalBeats) nCurrentBeat = 0
NextBeat(cur, total) == IF cur + 1 >= total THEN 0 ELSE cur + 1

\* v.sBeat[nCurrentBeat] read past the end of the string: undefined behaviour,
\* except at index size(), where operator[] yields the terminating L'\0'
ReadIsOutOfBounds(sBeat, idx) == idx >= Len(sBeat)
ReadIsUndefined(sBeat, idx) == idx > Len(sBeat)

\* v.sBeat[nCurrentBeat] == L'X'; junk holds the undefined reads that happen
\* to find an 'X'
IsTrigger(sBeat, idx, c, junk) ==
    IF idx < Len(sBeat) THEN sBeat[idx + 1] = "X"
    ELSE IF idx = Len(sBeat) THEN FALSE
    ELSE <<idx, c>> \in junk

\* the for loop over vecChannel of one step: the notes pushed back
RECURSIVE StepNotes(_, _, _, _)
StepNotes(chans, cur, c, junk) ==
    IF c > Len(chans) THEN <<>>
    ELSE (IF IsTrigger(chans[c].sBeat, cur, c, junk)
          THEN << [NewNote EXCEPT !.channel = chans[c].instrument,
                                  !.active = TRUE,
                                  !.id = 64] >>
          ELSE <<>>)
         \o StepNotes(chans, cur, c + 1, junk)

\* UpdateLoop reading the patterns at the current step before advancing it
RECURSIVE UpdateLoop_ReadThenAdvance(_, _, _, _, _, _, _)
UpdateLoop_ReadThenAdvance(acc, cur, notes, steps, chans, total, junk) ==
    IF acc >= fBeatTime
    THEN UpdateLoop_ReadThenAdvance(acc - fBeatTime, NextBeat(cur, total),
                                    notes \o StepNotes(chans, cur, 1, junk),
                                    steps + 1, chans, total, junk)
    ELSE [acc |-> acc, cur |-> cur, notes |-> notes, steps |-> steps]

\* UpdateLoop clearing the accumulator after a step instead of draining it
UpdateLoop_ResetAccumulator(acc, cur, notes, steps, chans, total, junk) ==
    IF acc >= fBeatTime
    THEN LET cur2 == NextBeat(cur, total)
         IN [acc |-> 0, cur |-> cur2,
             notes |-> notes \o StepNotes(chans, cur2, 1, junk),
             steps |-> steps + 1]
    ELSE [acc |-> acc, cur |-> cur, notes |-> notes, steps |-> steps]

\* the while loop of Update, from accumulator acc and step cur with the notes
\* collected so far; yields the final accumulator, step, notes and step count
RECURSIVE UpdateLoop(_, _, _, _, _, _, _)
UpdateLoop(acc, cur, notes, steps, chans, total, junk) ==
    IF acc >= fBeatTime
    THEN LET cur2 == NextBeat(cur, total)
         IN UpdateLoop(acc - fBeatTime, cur2,
                       notes \o StepNotes(chans, cur2, 1, junk),
                       steps + 1, chans, total, junk)
    ELSE [acc |-> acc, cur |-> cur, notes |-> notes, steps |-> steps]

\* the steps visited by Update(e) from the current state, in order
RECURSIVE StepsVisited(_, _)
StepsVisited(acc, cur) ==
    IF acc >= fBeatTime
    THEN LET cur2 == NextBeat(cur, nTotalBeats)
         IN {cur2} \cup StepsVisited(acc - fBeatTime, cur2)
    ELSE {}

\* the reads <<index, channel>> Update(e) makes past the end of a pattern
OutOfBoundsReads(e) ==
    { r \in StepsVisited(fAccumulate + e, nCurrentBeat) \X (1..Len(vecChannel)) :
        ReadIsOutOfBounds(vecChannel[r[2]].sBeat, r[1]) }
UndefinedReads(e) ==
    { r \in OutOfBoundsReads(e) : ReadIsUndefined(vecChannel[r[2]].sBeat, r[1]) }

\* int sequencer::Update(FTYPE fElapsedTime), fElapsedTime = e ticks.  (With
\* fBeatTime <= 0 the while loop would not end; no constructor argument tried
\* gives that.)
Update(e) ==
    /\ fBeatTime > 0
    /\ totalElapsed + e <= nTotalBeats * fBeatTime + MaxExtraTime
    /\ oobRead' = (oobRead \/ OutOfBoundsReads(e) # {})
    /\ \E junk \in SUBSET UndefinedReads(e) :
         LET r == UpdateLoop(fAccumulate + e, nCurrentBeat, <<>>, 0,
                             vecChannel, nTotalBeats, junk)
         IN /\ fAccumulate' = r.acc
            /\ nCurrentBeat' = r.cur
            /\ vecNotes' = r.notes
            /\ updateRet' = Len(r.notes)
            /\ stepsAdvanced' = stepsAdvanced + r.steps
            /\ notesLog' = IF setupChanged \/ oobRead' THEN <<>>
                           ELSE notesLog \o r.notes
    /\ totalElapsed' = totalElapsed + e
    /\ unitCalls' = (unitCalls /\ e = fBeatTime)
    /\ nCalls' = IF unitCalls /\ e = fBeatTime THEN nCalls + 1 ELSE 0
    /\ UNCHANGED <<nBeats, nSubBeats, fTempo, fBeatTime, nTotalBeats, vecChannel,
                   setupChanged, soundVars>>

\* a change of the channels after the first Update ends the recorded history
ChannelsChanged ==
    /\ setupChanged' = (setupChanged \/ totalElapsed > 0 \/ stepsAdvanced > 0
                          \/ nCalls > 0 \/ ~unitCalls)
    /\ notesLog' = IF setupChanged' \/ oobRead THEN <<>> ELSE notesLog
    /\ UNCHANGED <<totalElapsed, stepsAdvanced, nCalls, unitCalls, oobRead>>

\* void sequencer::AddInstrument(instrument_base *inst); every instrument is
\* given one channel at most
AddInstrument(inst) ==
    /\ Len(vecChannel) < MaxChannels
    /\ \A c \in 1..Len(vecChannel) : vecChannel[c].instrument # inst
    /\ vecChannel' = Append(vecChannel, [instrument |-> inst, sBeat |-> <<>>])
    /\ ChannelsChanged
    /\ UNCHANGED <<nBeats, nSubBeats, fTempo, fBeatTime, fAccumulate, nCurrentBeat,
                   nTotalBeats, vecNotes, updateRet, soundVars>>

\* vecChannel.at(c).sBeat = pattern: the public field is assigned by the owner
SetBeat(c, pattern) ==
    /\ c \in 1..Len(vecChannel)
    /\ vecChannel[c].sBeat # pattern
    /\ vecChannel' = [vecChannel EXCEPT ![c].sBeat = pattern]
    /\ ChannelsChanged
    /\ UNCHANGED <<nBeats, nSubBeats, fTempo, fBeatTime, fAccumulate, nCurrentBeat,
                   nTotalBeats, vecNotes, updateRet, soundVars>>

ElapsedTimes == 0..MaxElapsed

vars == <<seqVars, histVars, soundVars>>

NoCall == [kind |-> "none"]

Init == SeqInit /\ HistInit /\ pc = "idle" /\ args = NoCall /\ result = NoCall

Next ==
    \/ \E e \in ElapsedTimes : Update(e)
    \/ \E inst \in SeqInstruments : AddInstrument(inst)
    \/ \E c \in 1..MaxChannels, p \in Patterns(nTotalBeats) : SetBeat(c, p)

Spec == Init /\ [][Next]_vars

----------------------------------------------------------------------------
(* Calls of the envelope and of the instruments, one call per behaviour *)

\* the ADSR parameters tried: segment lengths 0..MaxSegment ticks, amplitudes
\* in [0,1] on both sides of the 0.01 threshold
SustainLevels == {Zero, Fin(1, 200), Fin(1, 100), Fin(1, 2), One}
StartLevels == {Zero, Fin(1, 2), One}
Envelopes ==
    [dAttackTime : 0..MaxSegment, dDecayTime : 0..MaxSegment,
     dSustainAmplitude : SustainLevels, dReleaseTime : 0..MaxSegment,
     dStartAmplitude : StartLevels]

AmplitudeCalls ==
    [kind : {"amplitude"}, env : Envelopes,
     dTime : 0..MaxTime, dTimeOn : 0..MaxTime, dTimeOff : 0..MaxTime]

\* struct note with the times set by the owner of the note
Note(on, off) == [NewNote EXCEPT !.id = 64, !.on = on, !.off = off, !.active = TRUE]

SoundCalls ==
    [kind : {"sound"}, inst : Instruments, dTime : 0..MaxSoundTime,
     n : {Note(on, off) : on \in 0..MaxNoteOn, off \in 0..MaxNoteOff},
     bNoteFinished : BOOLEAN]

SoundInit ==
    /\ pc = "ready"
    /\ args \in AmplitudeCalls \cup SoundCalls
    /\ result = NoCall

\* env.amplitude(dTime, dTimeOn, dTimeOff)
CallAmplitude ==
    /\ pc = "ready"
    /\ args.kind = "amplitude"
    /\ result' = [kind |-> "amplitude",
                  dAmplitude |-> amplitude(args.env, args.dTime, args.dTimeOn,
                                           args.dTimeOff)]
    /\ pc' = "done"
    /\ UNCHANGED <<args, seqVars, histVars>>

\* inst->sound(dTime, n, bNoteFinished)
CallSound ==
    /\ pc = "ready"
    /\ args.kind = "sound"
    /\ result' = sound(args.inst, args.dTime, args.n, args.bNoteFinished)
    /\ pc' = "done"
    /\ UNCHANGED <<args, seqVars, histVars>>

InitSound == SeqInit /\ HistInit /\ fTempo = 120 /\ SoundInit

NextSound == CallAmplitude \/ CallSound

SpecSound == InitSound /\ [][NextSound]_vars


----------------------------------------------------------------------------
(* Properties of the sequencer, checked under Spec *)

\* the channels whose pattern has a trigger marker at (0-based) position idx
MarkedAt(idx) ==
    { c \in 1..Len(vecChannel) :
        idx < Len(vecChannel[c].sBeat) /\ vecChannel[c].sBeat[idx + 1] = "X" }

\* tempo = 120, beats = 4, subBeats = 4, one channel with "X...............",
\* set up before the first call, and only calls Update(0.125) so far
Scenario120 ==
    /\ fTempo = 120 /\ nBeats = 4 /\ nSubBeats = 4
    /\ fBeatTime = SeqTicks(125)
    /\ ~setupChanged
    /\ Len(vecChannel) = 1
    /\ vecChannel[1].sBeat = Pattern(16, {0})
    /\ unitCalls

\* C1 as stated: in the 120/4/4 scenario with the pattern "X...............",
\* the first call Update(0.125) returns exactly 1 triggered note.
C1_FirstUpdateReturnsOne ==
    (Scenario120 /\ nCalls = 1) => updateRet = 1

\* C1 amended: in that scenario the first call Update(0.125) moves the step
\* index to 1 before the pattern is read and returns 0 notes; the marker at
\* position 0 triggers on the 16th call, which returns exactly 1 note.
C1_FirstUpdateReturnsNone ==
    /\ (Scenario120 /\ nCalls = 1) =>
          (updateRet = 0 /\ vecNotes = <<>> /\ nCurrentBeat = 1)
    /\ (Scenario120 /\ nCalls = 16) => (updateRet = 1 /\ nCurrentBeat = 0)

C1_Witness == Scenario120 /\ nCalls = 1 /\ updateRet = 0

\* C2: whatever AddInstrument and Update calls were made, Update has never read
\* a pattern at an index greater than or equal to the pattern's length.
C2_NoOutOfBoundsRead == ~oobRead

\* C8: however the elapsed time T is split over the calls of Update, the steps
\* advanced are floor(T / stepDuration), the accumulator stays in
\* [0, stepDuration), and the step index and the concatenated triggered notes
\* are those of the single call Update(T) on a fresh sequencer with the same
\* (well-formed) channels.
C8_SplitInvariance ==
    /\ stepsAdvanced = totalElapsed \div fBeatTime
    /\ 0 <= fAccumulate /\ fAccumulate < fBeatTime
    /\ fAccumulate = totalElapsed % fBeatTime
    /\ (~setupChanged /\ ~oobRead) =>
          LET single == UpdateLoop(totalElapsed, 0, <<>>, 0, vecChannel,
                                   nTotalBeats, {})
          IN /\ nCurrentBeat = single.cur
             /\ notesLog = single.notes
             /\ fAccumulate = single.acc

C8_Witness ==
    /\ ~setupChanged /\ ~oobRead /\ ~unitCalls
    /\ stepsAdvanced > nTotalBeats
    /\ fAccumulate > 0
    /\ Len(vecNotes) >= 2
    /\ Len(notesLog) > Len(vecNotes)

\* C9: the step index stays within 0..totalSteps-1, and after exactly
\* totalSteps calls of Update(stepDuration) on a fresh sequencer it is 0 again
\* and the last call reports one note for every channel (set up before the
\* first call) marked at position 0.
C9_CircularStepIndex ==
    /\ nCurrentBeat \in 0..(nTotalBeats - 1)
    /\ (unitCalls /\ nCalls = nTotalBeats) => nCurrentBeat = 0
    /\ (unitCalls /\ nCalls = nTotalBeats /\ ~setupChanged) =>
          /\ updateRet = Cardinality(MarkedAt(0))
          /\ \A c \in MarkedAt(0) :
                \E i \in 1..Len(vecNotes) :
                    /\ vecNotes[i].channel = vecChannel[c].instrument
                    /\ vecNotes[i].active

C9_Witness ==
    /\ unitCalls /\ nCalls = nTotalBeats /\ nTotalBeats = 16 /\ ~setupChanged
    /\ nCurrentBeat = 0
    /\ Cardinality(MarkedAt(0)) = 2
    /\ updateRet = 2

----------------------------------------------------------------------------
(* Properties of the envelope and the instruments, checked under SpecSound *)

AmplitudeDone == pc = "done" /\ args.kind = "amplitude"
SoundDone == pc = "done" /\ args.kind = "sound"
\* onTime > offTime
Sounding(on, off) == on > off

\* Bell, onTime = 0, offTime = 0, time = 0.005, noteFinished false on entry
BellAtZero ==
    /\ SoundDone
    /\ args.inst = instrument_bell
    /\ args.n.on = 0 /\ args.n.off = 0
    /\ args.dTime = Ticks(5)
    /\ ~args.bNoteFinished

\* C3 as stated: for the Bell, a note with onTime = 0 and offTime = 0 evaluated
\* at time 0.005 with noteFinished false leaves noteFinished false.
C3_BellAtZeroNotFinished == BellAtZero => ~result.bNoteFinished

\* C3 amended: that note is in the releasing phase (onTime > offTime is false)
\* with release amplitude 0, so the amplitude is 0 and sound sets noteFinished;
\* a Bell note with onTime > offTime evaluated 0.005 after onTime (inside the
\* attack) leaves noteFinished false.
C3_BellAtZeroFinished ==
    /\ BellAtZero => (result.bNoteFinished /\ result.dAmplitude = Zero)
    /\ ( /\ SoundDone
         /\ args.inst = instrument_bell
         /\ Sounding(args.n.on, args.n.off)
         /\ args.dTime - args.n.on = Ticks(5)
         /\ ~args.bNoteFinished ) => ~result.bNoteFinished

C3_Witness == BellAtZero /\ result.bNoteFinished

\* a sounding note of an envelope-driven instrument, evaluated at or after
\* onTime with noteFinished false on entry
SoundingEnvelopeCall ==
    /\ SoundDone
    /\ args.inst \in EnvelopeDriven
    /\ Sounding(args.n.on, args.n.off)
    /\ args.dTime >= args.n.on
    /\ ~args.bNoteFinished

\* C4 as stated: for Bell, 8-bit Bell and Harmonica, a note in its sounding
\* phase evaluated at any time >= onTime with noteFinished false leaves it
\* false.
C4_SoundingNeverFinished == SoundingEnvelopeCall => ~result.bNoteFinished

\* C4 amended: the envelope-driven instruments set noteFinished exactly when
\* the returned envelope amplitude is <= 0 (and never clear it).  For a
\* sounding note at time >= onTime that is the case while the attack ramp is
\* still within the 0.01 threshold (Bell and 8-bit Bell at time = onTime) and,
\* for the Bell, whose sustain amplitude is 0, from 1.0 s after onTime on;
\* otherwise noteFinished stays false.
C4_FinishedIffAmplitudeZero ==
    /\ (SoundDone /\ args.inst \in EnvelopeDriven) =>
          (result.bNoteFinished <=>
              (args.bNoteFinished \/ FLeq(result.dAmplitude, Zero)))
    /\ SoundingEnvelopeCall =>
          (result.bNoteFinished <=>
              \/ /\ args.inst \in {instrument_bell, instrument_bell8}
                 /\ args.dTime = args.n.on
              \/ /\ args.inst = instrument_bell
                 /\ args.dTime - args.n.on >= Ticks(1000))

C4_Witness ==
    /\ SoundingEnvelopeCall
    /\ args.inst = instrument_bell
    /\ args.dTime - args.n.on > Ticks(1010)
    /\ result.bNoteFinished

\* C5: amplitude never divides by a zero-length segment: whatever the segment
\* lengths (0 included, as in the shipped Harmonica and drums) and the times,
\* the returned amplitude is a finite value.
C5_AmplitudeFinite == pc = "done" => IsFinite(result.dAmplitude)

AfterDecay(e) ==
    /\ AmplitudeDone
    /\ Sounding(args.dTimeOn, args.dTimeOff)
    /\ args.dTime = args.dTimeOn + args.env.dAttackTime + args.env.dDecayTime + e

\* C7 as stated: for a sounding note, amplitude(onTime + a + d + e, ...) equals
\* sustainAmplitude for every e >= 0, for every d and every sustain amplitude.
C7_SustainHolds ==
    \A e \in 0..MaxTime :
        AfterDecay(e) => result.dAmplitude = args.env.dSustainAmplitude

\* C7 amended: for a sounding note and every e > 0, amplitude(onTime+a+d+e, ...)
\* equals sustainAmplitude when that is above 0.01, and 0 when it is at or
\* below 0.01.
C7_SustainHoldsAfterDecay ==
    \A e \in 1..MaxTime :
        AfterDecay(e) =>
            result.dAmplitude =
                IF FGt(args.env.dSustainAmplitude, Fin(1, 100))
                THEN args.env.dSustainAmplitude
                ELSE Zero

C7_Witness ==
    /\ AfterDecay(1)
    /\ args.env.dDecayTime > 0
    /\ args.env.dSustainAmplitude = Fin(1, 2)
    /\ result.dAmplitude = Fin(1, 2)

\* the maximum life times of the timeout-driven instruments, in ticks
DrumLifeTime(name) ==
    CASE name = "Drum Kick" -> Ticks(1500)
      [] name = "Drum Snare" -> Ticks(1000)
      [] name = "Drum HiHat" -> Ticks(1000)

\* C10: Drum Kick, Drum Snare and Drum Hi-Hat set noteFinished whenever
\* time - onTime >= 1.5, 1.0, 1.0 s, whatever offTime and the amplitude are,
\* and leave it unchanged otherwise.
C10_TimeoutFinishes ==
    (SoundDone /\ args.inst \in TimeoutDriven) =>
        result.bNoteFinished =
            IF args.dTime - args.n.on >= DrumLifeTime(args.inst.name)
            THEN TRUE
            ELSE args.bNoteFinished

\* Drum Kick with onTime = 0 at time = 1.6
C10_Witness ==
    /\ SoundDone
    /\ args.inst = instrument_drumkick
    /\ args.n.on = 0
    /\ args.dTime = Ticks(1600)
    /\ ~args.bNoteFinished
    /\ result.bNoteFinished

====
